---------------------------- MODULE Spec2Model ----------------------------
(***************************************************************************)
(* The process-orchestration core of the yt-dlp GUI, in its two front-ends *)
(* (src/ytdlp_tkinter_gui.py and src/ytdlp_qt_gui.py): the Download        *)
(* button and its validate() gating, the start action that builds the      *)
(* argument vector and launches a background thread, the thread's          *)
(* run_process, and the consumer side (the Tkinter process_queue timer,    *)
(* the Qt event loop delivering the queued signals).                       *)
(*                                                                         *)
(* Text is a sequence of one-character strings; a few fixed pieces of text *)
(* ("%(title)s", ".%(ext)s", the flags) are kept as one element each.      *)
(***************************************************************************)
EXTENDS Integers, Sequences, FiniteSets, TLC

(***************************************************************************)
(* Bounds of the model.                                                    *)
(***************************************************************************)
\* start actions (background threads launched) in one run
MaxJobs == 2
\* output lines one process writes
MaxLines == 2

Jobs == 1..MaxJobs

(***************************************************************************)
(* The texts the user can put in the fields.                               *)
(***************************************************************************)
Urls == { <<>>, <<" ">>, <<"u">> }
Formats == { <<>>, <<" ">>, <<" ", "f">> }
Filenames == { <<>>, <<" ">>, <<"n">>, <<" ", "n", " ">> }
Folders == { <<"/", "d">>, <<"/", "e", "/">> }
FolderTexts == Folders \cup { <<>> }

VARIABLES
    phase,            \* where the program stands: "load", "probe", "build"
                      \* (startup), "interactive", "exited", "crashed"
    exe_found,        \* the downloader executable exists
    settings_file,    \* content of settings.json
    settings,         \* what load_settings() returned
    current_theme,    \* "dark" or "light"
    fe,               \* which front-end runs: "tk" or "qt"
    download_type,    \* "audio" or "video"
    url_var,          \* text of the URL field
    format_var,       \* text of the format field
    filename_var,     \* text of the filename field
    download_folder,  \* tk: download_path; qt: self.download_folder
    folder_entry,     \* text shown in the download-folder field
    process_running,  \* the run flag (RunState: TRUE is Running)
    btn_enabled,      \* state of the Download button
    progress_on,      \* the busy indicator
    format_shown,     \* visibility of the format field
    output_queue,     \* queue.Queue() of both front-ends
    events,           \* qt: queued signal deliveries waiting in the event loop
    output,           \* what has been appended to the output view
    njobs,            \* background threads launched so far
    pc,               \* position of each background thread in run_process
    proc,             \* state of each job's external process
    nread,            \* lines each thread has read from its process
    seen,             \* the job's completion is observable: qt, its Finished
                      \* was handled; tk, its thread reset the run flag
    command           \* argument vector handed to each background thread

vars == << phase, exe_found, settings_file, settings, current_theme,
           fe, download_type, url_var, format_var, filename_var,
           download_folder, folder_entry, process_running, btn_enabled,
           progress_on, format_shown, output_queue, events, output,
           njobs, pc, proc, nread, seen, command >>

fields == << url_var, format_var, filename_var, download_type,
             download_folder, folder_entry >>
threads == << pc, proc, nread >>
boot == << phase, exe_found, settings_file, settings, current_theme >>

(***************************************************************************)
(* str.strip(): leading and trailing whitespace removed.                   *)
(***************************************************************************)
Whitespace == { " " }

RECURSIVE LStrip(_)
LStrip(s) ==
    IF s # <<>> /\ Head(s) \in Whitespace THEN LStrip(Tail(s)) ELSE s

RECURSIVE RStrip(_)
RStrip(s) ==
    IF s # <<>> /\ s[Len(s)] \in Whitespace
    THEN RStrip(SubSeq(s, 1, Len(s) - 1))
    ELSE s

StripNoop(s) == s

Strip(s) == RStrip(LStrip(s))

(***************************************************************************)
(* os.path.join(a, b): an absolute b replaces a; otherwise one separator   *)
(* is put between them unless a is empty or already ends in one.           *)
(***************************************************************************)
PathJoin(a, b) ==
    IF b # <<>> /\ Head(b) = "/" THEN b
    ELSE IF a = <<>> \/ a[Len(a)] = "/" THEN a \o b
    ELSE a \o <<"/">> \o b

yt_dlp_path == << "yt-dlp.exe" >>
TitlePlaceholder == << "%(title)s" >>
ExtSuffix == << ".%(ext)s" >>
NoCommand == << >>

(***************************************************************************)
(* The three branches of start_download.                                   *)
(***************************************************************************)
OutputTemplate(folder, filename) ==
    LET stripped == Strip(filename)
        base == IF stripped # <<>> THEN stripped ELSE TitlePlaceholder
    IN  PathJoin(folder, base \o ExtSuffix)

IsAudio == download_type = "audio"

AudioCommand(folder, filename, url) ==
    << yt_dlp_path, <<"-x">>, <<"--audio-format">>, <<"mp3">>, <<"-o">>,
       OutputTemplate(folder, filename), url >>

ProbeCommandWithOutput(folder, filename, url) ==
    << yt_dlp_path, <<"-F">>, <<"-o">>, OutputTemplate(folder, filename), url >>

ProbeCommand(folder, filename, url) ==
    << yt_dlp_path, <<"-F">>, url >>

VideoCommandTrimmed(folder, filename, format, url) ==
    << yt_dlp_path, <<"-f">>, Strip(format), <<"--merge-output-format">>,
       <<"mp4">>, <<"-o">>, OutputTemplate(folder, filename), url >>

VideoCommand(folder, filename, format, url) ==
    << yt_dlp_path, <<"-f">>, format, <<"--merge-output-format">>, <<"mp4">>,
       <<"-o">>, OutputTemplate(folder, filename), url >>

\* the mutated start_download: the audio branch does not return
LaunchesNoReturn ==
    LET a == IF IsAudio
               THEN << AudioCommand(download_folder, filename_var, url_var) >>
               ELSE <<>>
        p == IF Strip(format_var) = <<>>
               THEN << ProbeCommand(download_folder, filename_var, url_var) >>
               ELSE <<>>
        v == IF p = <<>>
               THEN << VideoCommand(download_folder, filename_var,
                                    format_var, url_var) >>
               ELSE <<>>
    IN  a \o p \o v

\* the commands one call of start_download hands to a new thread, in order.
\* The audio branch and the listing branch each end in return, so a later
\* branch is reached only when no earlier one was taken.
Launches ==
    LET a == IF IsAudio
               THEN << AudioCommand(download_folder, filename_var, url_var) >>
               ELSE <<>>
        p == IF a = <<>> /\ Strip(format_var) = <<>>
               THEN << ProbeCommand(download_folder, filename_var, url_var) >>
               ELSE <<>>
        v == IF a = <<>> /\ p = <<>>
               THEN << VideoCommand(download_folder, filename_var,
                                    format_var, url_var) >>
               ELSE <<>>
    IN  a \o p \o v

(***************************************************************************)
(* The Qt window's start_download, translated on its own from              *)
(* ytdlp_qt_gui.py: the mode is radio_audio.isChecked(), the texts are     *)
(* the widgets' text() and the folder is self.download_folder.             *)
(***************************************************************************)
\* the mutated Qt start_download: the format is passed stripped
QtLaunchesTrimmed(audio_checked, url, format, filename, folder) ==
    LET base == IF Strip(filename) # <<>> THEN Strip(filename)
                ELSE << "%(title)s" >>
        output_template == PathJoin(folder, base \o << ".%(ext)s" >>)
    IN  IF audio_checked
          THEN << << yt_dlp_path, <<"-x">>, <<"--audio-format">>, <<"mp3">>,
                     <<"-o">>, output_template, url >> >>
        ELSE IF Strip(format) = <<>>
          THEN << << yt_dlp_path, <<"-F">>, url >> >>
        ELSE << << yt_dlp_path, <<"-f">>, Strip(format),
                   <<"--merge-output-format">>, <<"mp4">>, <<"-o">>,
                   output_template, url >> >>

QtLaunches(audio_checked, url, format, filename, folder) ==
    LET base == IF Strip(filename) # <<>> THEN Strip(filename)
                ELSE << "%(title)s" >>
        output_template == PathJoin(folder, base \o << ".%(ext)s" >>)
    IN  IF audio_checked
          THEN << << yt_dlp_path, <<"-x">>, <<"--audio-format">>, <<"mp3">>,
                     <<"-o">>, output_template, url >> >>
        ELSE IF Strip(format) = <<>>
          THEN << << yt_dlp_path, <<"-F">>, url >> >>
        ELSE << << yt_dlp_path, <<"-f">>, format,
                   <<"--merge-output-format">>, <<"mp4">>, <<"-o">>,
                   output_template, url >> >>

\* the commands the running front-end's start_download launches
StartCommands ==
    IF fe = "qt"
      THEN QtLaunches(download_type = "audio", url_var, format_var,
                      filename_var, download_folder)
      ELSE Launches

(***************************************************************************)
(* Entries of the output view and of the two queues.                       *)
(***************************************************************************)
\* the text start_download itself appends: "--- Download started ---",
\* followed in the probe branch by "Listing formats..."
Banner == [kind |-> "started", job |-> 0, idx |-> 0]
Line(j, i) == [kind |-> "line", job |-> j, idx |-> i]
Finished(j) == [kind |-> "finished", job |-> j, idx |-> 0]

(***************************************************************************)
(* validate(): the state it gives the Download button.                     *)
(***************************************************************************)
Validate(running, type, url) ==
    IF running THEN FALSE
    ELSE type # "" /\ Strip(url) # <<>>

\* tk only: validate() also shows the format field for video, unless it
\* returned early because a process is running
ValidateFormatShown(running, type, shown) ==
    IF fe = "tk" /\ ~running THEN type = "video" ELSE shown

(***************************************************************************)
(* Startup.  The Tkinter button is created in its default (enabled) state  *)
(* and validate() is not called before the event loop starts; the Qt       *)
(* window calls validate() in __init__.                                    *)
(***************************************************************************)
DefaultFolder == << "/", "d" >>

InitButton(f) ==
    IF f = "qt" THEN Validate(FALSE, "audio", <<>>) ELSE TRUE

(***************************************************************************)
(* The settings store.  settings.json is absent, unparsable, or a JSON     *)
(* object holding some of the two keys; a key that is missing keeps the    *)
(* default value in the record so that equal files are equal records.      *)
(***************************************************************************)
Themes == { "dark", "light" }
SettingsKeys == { "theme", "download_folder" }

DEFAULT_SETTINGS ==
    [ keys |-> SettingsKeys, theme |-> "dark", folder |-> DefaultFolder ]

NoSettings == [ keys |-> {}, theme |-> "dark", folder |-> DefaultFolder ]

FileAbsent ==
    [ kind |-> "absent", keys |-> {}, theme |-> "dark",
      folder |-> DefaultFolder ]

FileGarbled ==
    [ kind |-> "garbled", keys |-> {}, theme |-> "dark",
      folder |-> DefaultFolder ]

FileJson(keys, theme, folder) ==
    [ kind |-> "json", keys |-> keys,
      theme |-> IF "theme" \in keys THEN theme ELSE "dark",
      folder |-> IF "download_folder" \in keys THEN folder
                                               ELSE DefaultFolder ]

SettingsFiles ==
    { FileAbsent, FileGarbled } \cup
    { FileJson(k, t, d) : k \in SUBSET SettingsKeys, t \in Themes,
                          d \in Folders }

\* load_settings(): the defaults when the file is missing or json.load
\* raises, otherwise the parsed object as it is
load_settings(file) ==
    IF file.kind = "absent" THEN DEFAULT_SETTINGS
    ELSE IF file.kind = "garbled" THEN DEFAULT_SETTINGS
    ELSE [ keys |-> file.keys, theme |-> file.theme, folder |-> file.folder ]

\* save_settings(): both keys are written
save_settings(theme, folder) == FileJson(SettingsKeys, theme, folder)

\* the file after a start without settings.json: the Tkinter module calls
\* apply_theme(), which saves, before the event loop; the Qt window's
\* apply_theme() does not save
FileAfterStartup(f, theme, folder, file) ==
    IF f = "tk" THEN save_settings(theme, folder) ELSE file

\* the state before the module body runs
StartInit ==
    /\ phase = "load"
    /\ exe_found \in BOOLEAN
    /\ settings_file \in SettingsFiles
    /\ settings = NoSettings
    /\ current_theme = "dark"
    /\ fe \in { "tk", "qt" }
    /\ download_type = "audio"
    /\ url_var = <<>>
    /\ format_var = <<>>
    /\ filename_var = <<>>
    /\ download_folder = <<>>
    /\ folder_entry = <<>>
    /\ process_running = FALSE
    /\ btn_enabled = FALSE
    /\ progress_on = FALSE
    /\ format_shown = FALSE
    /\ output_queue = <<>>
    /\ events = <<>>
    /\ output = <<>>
    /\ njobs = 0
    /\ pc = [j \in Jobs |-> "none"]
    /\ proc = [j \in Jobs |-> "none"]
    /\ nread = [j \in Jobs |-> 0]
    /\ seen = [j \in Jobs |-> FALSE]
    /\ command = [j \in Jobs |-> NoCommand]

\* settings = load_settings()
startup_load ==
    /\ phase = "load"
    /\ settings' = load_settings(settings_file)
    /\ phase' = "probe"
    /\ UNCHANGED << exe_found, settings_file, current_theme, fe, fields,
                    process_running, btn_enabled, progress_on, format_shown,
                    output_queue, events, output, njobs, threads, seen,
                    command >>

\* the mutated probe: FileNotFoundError is swallowed
ProbeIgnoringAbsence(found) == "build"

\* subprocess.run([yt_dlp_path, "-U"]): FileNotFoundError shows the error
\* box and exits; any other outcome of the update is ignored
ProbeOutcome(found) == IF found THEN "build" ELSE "exited"

update_probe ==
    /\ phase = "probe"
    /\ phase' = ProbeOutcome(exe_found)
    /\ UNCHANGED << exe_found, settings_file, settings, current_theme, fe,
                    fields, process_running, btn_enabled, progress_on,
                    format_shown, output_queue, events, output, njobs,
                    threads, seen, command >>

\* the window is built: settings["theme"] and settings["download_folder"]
\* are read (KeyError when a key is missing), the widgets are created and
\* the theme is applied
build_ui ==
    /\ phase = "build"
    /\ IF SettingsKeys \subseteq settings.keys
          THEN /\ phase' = "interactive"
               /\ current_theme' = settings.theme
               /\ download_folder' = settings.folder
               /\ folder_entry' = settings.folder
               /\ btn_enabled' = InitButton(fe)
               /\ settings_file' = FileAfterStartup(fe, settings.theme,
                                                    settings.folder,
                                                    settings_file)
          ELSE /\ phase' = "crashed"
               /\ UNCHANGED << current_theme, download_folder, folder_entry,
                               btn_enabled, settings_file >>
    /\ UNCHANGED << exe_found, settings, fe, download_type, url_var,
                    format_var, filename_var, process_running, progress_on,
                    format_shown, output_queue, events, output, njobs,
                    threads, seen, command >>

\* the state after construction, started without a settings file and with
\* the executable present
Init ==
    /\ phase = "interactive"
    /\ exe_found = TRUE
    /\ fe \in { "tk", "qt" }
    /\ settings = DEFAULT_SETTINGS
    /\ settings_file = FileAfterStartup(fe, "dark", DefaultFolder, FileAbsent)
    /\ current_theme = "dark"
    /\ download_type = "audio"
    /\ url_var = <<>>
    /\ format_var = <<>>
    /\ filename_var = <<>>
    /\ download_folder = DefaultFolder
    /\ folder_entry = DefaultFolder
    /\ process_running = FALSE
    /\ btn_enabled = InitButton(fe)
    /\ progress_on = FALSE
    /\ format_shown = FALSE
    /\ output_queue = <<>>
    /\ events = <<>>
    /\ output = <<>>
    /\ njobs = 0
    /\ pc = [j \in Jobs |-> "none"]
    /\ proc = [j \in Jobs |-> "none"]
    /\ nread = [j \in Jobs |-> 0]
    /\ seen = [j \in Jobs |-> FALSE]
    /\ command = [j \in Jobs |-> NoCommand]

(***************************************************************************)
(* Main-thread handlers.  The main thread runs one handler at a time.      *)
(***************************************************************************)
\* the URL field is edited: url_var's trace / textChanged calls validate()
url_changed(u) ==
    /\ phase = "interactive"
    /\ u # url_var
    /\ url_var' = u
    /\ btn_enabled' = Validate(process_running, download_type, u)
    /\ format_shown' = ValidateFormatShown(process_running, download_type,
                                           format_shown)
    /\ UNCHANGED << boot, fe, download_type, format_var, filename_var,
                    download_folder, folder_entry, process_running,
                    progress_on, output_queue, events, output,
                    njobs, threads, seen, command >>

\* a radio button is chosen: download_type's trace (tk), on_type_changed (qt)
on_type_changed(t) ==
    /\ phase = "interactive"
    /\ t # download_type
    /\ download_type' = t
    /\ btn_enabled' = Validate(process_running, t, url_var)
    /\ format_shown' = IF fe = "qt" THEN t = "video"
                       ELSE ValidateFormatShown(process_running, t,
                                                format_shown)
    /\ UNCHANGED << boot, fe, url_var, format_var, filename_var, download_folder,
                    folder_entry, process_running, progress_on, output_queue,
                    events, output, njobs, threads, seen, command >>

\* the format field is edited: no handler is attached to it
format_changed(f) ==
    /\ phase = "interactive"
    /\ f # format_var
    /\ format_var' = f
    /\ UNCHANGED << boot, fe, download_type, url_var, filename_var,
                    download_folder, folder_entry, process_running,
                    btn_enabled, progress_on, format_shown, output_queue,
                    events, output, njobs, threads, seen, command >>

\* the filename field is edited: no handler is attached to it
filename_changed(n) ==
    /\ phase = "interactive"
    /\ n # filename_var
    /\ filename_var' = n
    /\ UNCHANGED << boot, fe, download_type, url_var, format_var, download_folder,
                    folder_entry, process_running, btn_enabled, progress_on,
                    format_shown, output_queue, events, output,
                    njobs, threads, seen, command >>

\* Browse: a cancelled dialog returns "" and changes nothing
choose_folder(d) ==
    /\ phase = "interactive"
    /\ d \in Folders
    /\ << download_folder, folder_entry >> # << d, d >>
    /\ download_folder' = d
    /\ folder_entry' = d
    /\ settings_file' = save_settings(current_theme, d)
    /\ UNCHANGED << phase, exe_found, settings, current_theme,
                    fe, download_type, url_var, format_var, filename_var,
                    process_running, btn_enabled, progress_on, format_shown,
                    output_queue, events, output, njobs, threads,
                    seen, command >>

\* the download-folder field is edited by hand: the Tkinter entry is bound
\* to download_path, the Qt entry is bound to nothing
folder_typed(d) ==
    /\ phase = "interactive"
    /\ d # folder_entry
    /\ folder_entry' = d
    /\ download_folder' = IF fe = "tk" THEN d ELSE download_folder
    /\ UNCHANGED << boot, fe, download_type, url_var, format_var, filename_var,
                    process_running, btn_enabled, progress_on, format_shown,
                    output_queue, events, output, njobs, threads,
                    seen, command >>

\* the Download button is clicked
start_download ==
    /\ phase = "interactive"
    /\ btn_enabled
    /\ njobs + Len(StartCommands) <= MaxJobs
    /\ output' = Append(output, Banner)
    /\ progress_on' = IF fe = "qt" THEN TRUE ELSE progress_on
    /\ command' = [j \in Jobs |->
                      IF j > njobs /\ j <= njobs + Len(StartCommands)
                        THEN StartCommands[j - njobs] ELSE command[j]]
    /\ njobs' = njobs + Len(StartCommands)
    /\ pc' = [j \in Jobs |->
                 IF j > njobs /\ j <= njobs + Len(StartCommands)
                   THEN "begin" ELSE pc[j]]
    /\ UNCHANGED << boot, fe, fields, process_running, btn_enabled, format_shown,
                    output_queue, events, proc, nread, seen >>

(***************************************************************************)
(* run_process(command), on the job's background thread.  pc[j] is where   *)
(* thread j stands: "begin" (launched, nothing run yet), "spawn" (about to *)
(* call Popen), "read" (in the for loop over process.stdout), "wait"       *)
(* (about to call process.wait()), "finally"/"finally_exc" (entering the   *)
(* finally block, without or with an exception in flight), "validate"/     *)
(* "validate_exc" (tk: about to call validate()), "done" (returned),       *)
(* "raised" (ended by the exception the finally block let through).        *)
(***************************************************************************)
\* process_running.set(True); progress.start()   /   self.process_running = True
run_begin(j) ==
    /\ pc[j] = "begin"
    /\ process_running' = TRUE
    /\ progress_on' = IF fe = "tk" THEN TRUE ELSE progress_on
    /\ pc' = [pc EXCEPT ![j] = "spawn"]
    /\ UNCHANGED << boot, fe, fields, btn_enabled, format_shown, output_queue,
                    events, output, njobs, proc, nread, seen, command >>

\* subprocess.Popen(command, ...) returns a process; the argument vector is
\* not used again
popen_ok(j) ==
    /\ pc[j] = "spawn"
    /\ proc' = [proc EXCEPT ![j] = "alive"]
    /\ pc' = [pc EXCEPT ![j] = "read"]
    /\ command' = [command EXCEPT ![j] = NoCommand]
    /\ UNCHANGED << boot, fe, fields, process_running, btn_enabled, progress_on,
                    format_shown, output_queue, events, output, njobs, nread,
                    seen >>

\* subprocess.Popen(command, ...) raises (OSError): no process exists
popen_fail(j) ==
    /\ pc[j] = "spawn"
    /\ pc' = [pc EXCEPT ![j] = "finally_exc"]
    /\ command' = [command EXCEPT ![j] = NoCommand]
    /\ UNCHANGED << boot, fe, fields, process_running, btn_enabled, progress_on,
                    format_shown, output_queue, events, output, njobs, proc,
                    nread, seen >>

\* where a line the thread has read is put
PushFront(q, e) == << e >> \o q

Push(q, e) == Append(q, e)

\* one iteration of "for line in process.stdout": the process writes a line
\* and the thread relays it (tk: output_queue.put; qt: output_signal.emit,
\* a queued delivery because the emitter is not the main thread)
read_line(j) ==
    /\ pc[j] = "read"
    /\ proc[j] = "alive"
    /\ nread[j] < MaxLines
    /\ nread' = [nread EXCEPT ![j] = @ + 1]
    /\ output_queue' = IF fe = "tk"
                       THEN Push(output_queue, Line(j, nread[j] + 1))
                       ELSE output_queue
    /\ events' = IF fe = "qt"
                 THEN Push(events, Line(j, nread[j] + 1))
                 ELSE events
    /\ UNCHANGED << boot, fe, fields, process_running, btn_enabled, progress_on,
                    format_shown, output, njobs, pc, proc, seen,
                    command >>

\* the external process exits while the thread reads its output
\* (environment).  Its status is not kept: nothing reads returncode.
proc_exit(j) ==
    /\ pc[j] = "read"
    /\ proc[j] = "alive"
    /\ proc' = [proc EXCEPT ![j] = "exited"]
    /\ UNCHANGED << boot, fe, fields, process_running, btn_enabled, progress_on,
                    format_shown, output_queue, events, output,
                    njobs, pc, nread, seen, command >>

Exited(j) == proc[j] = "exited"

\* the for loop meets end-of-stream
read_eof(j) ==
    /\ pc[j] = "read"
    /\ Exited(j)
    /\ pc' = [pc EXCEPT ![j] = "wait"]
    /\ UNCHANGED << boot, fe, fields, process_running, btn_enabled, progress_on,
                    format_shown, output_queue, events, output,
                    njobs, proc, nread, seen, command >>

\* reading the stream raises (a decoding error, a broken pipe): the loop is
\* left for the finally block, process.wait() is skipped
read_fail(j) ==
    /\ pc[j] = "read"
    /\ pc' = [pc EXCEPT ![j] = "finally_exc"]
    /\ UNCHANGED << boot, fe, fields, process_running, btn_enabled, progress_on,
                    format_shown, output_queue, events, output,
                    njobs, proc, nread, seen, command >>

\* process.wait() returns: the process is reaped
wait(j) ==
    /\ pc[j] = "wait"
    /\ Exited(j)
    /\ proc' = [proc EXCEPT ![j] = "reaped"]
    /\ pc' = [pc EXCEPT ![j] = "finally"]
    /\ UNCHANGED << boot, fe, fields, process_running, btn_enabled, progress_on,
                    format_shown, output_queue, events, output,
                    njobs, nread, seen, command >>

InFinally(j) == pc[j] \in { "finally", "finally_exc" }

\* tk, finally: process_running.set(False); progress.stop()
finally_tk(j) ==
    /\ fe = "tk"
    /\ InFinally(j)
    /\ process_running' = FALSE
    /\ progress_on' = FALSE
    /\ seen' = [seen EXCEPT ![j] = TRUE]
    /\ pc' = [pc EXCEPT ![j] = IF pc[j] = "finally" THEN "validate"
                                ELSE "validate_exc"]
    /\ UNCHANGED << boot, fe, fields, btn_enabled, format_shown, output_queue,
                    events, output, njobs, proc, nread, command >>

\* tk, finally: validate(), called on the background thread
validate_tk(j) ==
    /\ fe = "tk"
    /\ pc[j] \in { "validate", "validate_exc" }
    /\ btn_enabled' = Validate(process_running, download_type, url_var)
    /\ format_shown' = ValidateFormatShown(process_running, download_type,
                                           format_shown)
    /\ pc' = [pc EXCEPT ![j] = IF pc[j] = "validate" THEN "done" ELSE "raised"]
    /\ UNCHANGED << boot, fe, fields, process_running, progress_on, output_queue,
                    events, output, njobs, proc, nread, seen, command >>

\* qt, finally: signal_handler.process_finished.emit(), a queued delivery
finally_qt(j) ==
    /\ fe = "qt"
    /\ InFinally(j)
    /\ events' = Push(events, Finished(j))
    /\ pc' = [pc EXCEPT ![j] = IF pc[j] = "finally" THEN "done" ELSE "raised"]
    /\ UNCHANGED << boot, fe, fields, process_running, btn_enabled, progress_on,
                    format_shown, output_queue, output, njobs,
                    proc, nread, seen, command >>

(***************************************************************************)
(* The consumer side.                                                      *)
(***************************************************************************)
\* process_queue, called by the 100 ms timer: "while not empty: get() and
\* append_output".  The loop ends when it finds the queue empty, so one call
\* takes every entry put before that test; a put during the loop commutes
\* with the gets before it, so the call is one step.
\* the mutated drain: only the oldest buffered line is appended, the rest
\* of the buffer is thrown away
process_queue_dropping ==
    /\ phase = "interactive"
    /\ output' = output \o (IF output_queue = <<>> THEN <<>>
                             ELSE << Head(output_queue) >>)
    /\ output_queue' = <<>>
    /\ UNCHANGED << boot, fe, fields, process_running, btn_enabled, progress_on,
                    format_shown, events, njobs, threads, seen, command >>

\* the mutated drain: a blocking get on a queue that may be empty
process_queue_blocking ==
    /\ phase = "interactive"
    /\ output_queue # <<>>
    /\ output' = output \o output_queue
    /\ output_queue' = <<>>
    /\ UNCHANGED << boot, fe, fields, process_running, btn_enabled, progress_on,
                    format_shown, events, njobs, threads, seen, command >>

process_queue ==
    /\ phase = "interactive"
    /\ output' = output \o output_queue
    /\ output_queue' = <<>>
    /\ UNCHANGED << boot, fe, fields, process_running, btn_enabled, progress_on,
                    format_shown, events, njobs, threads, seen, command >>

\* on_process_finished: what it leaves in the run flag
FlagKept(running) == running

FlagAfterFinished(running) == FALSE

\* qt: the event loop delivers the oldest queued signal to its slot,
\* append_output(text) or on_process_finished()
deliver ==
    /\ phase = "interactive"
    /\ fe = "qt"
    /\ events # <<>>
    /\ events' = Tail(events)
    /\ IF Head(events).kind = "line"
       THEN /\ output' = Append(output, Head(events))
            /\ UNCHANGED << process_running, progress_on, btn_enabled, seen >>
       ELSE /\ process_running' = FlagAfterFinished(process_running)
            /\ progress_on' = FALSE
            /\ btn_enabled' = Validate(FlagAfterFinished(process_running),
                                       download_type, url_var)
            /\ seen' = [seen EXCEPT ![Head(events).job] = TRUE]
            /\ UNCHANGED output
    /\ UNCHANGED << boot, fe, fields, format_shown, output_queue, njobs,
                    threads, command >>

(***************************************************************************)
(* Specifications.  Next is the orchestration: the start action, the two   *)
(* fields validate() reads, the background threads and the consumer; the   *)
(* format, filename and folder fields, which only feed the argument        *)
(* vector, keep their startup values.  CmdNext is the command selection:   *)
(* every field edited, and the start action.  Fairness adds what the       *)
(* scheduling guarantees: a thread that can run its next statement runs    *)
(* it, the event loop keeps calling the timer callback and delivering      *)
(* queued signals.  The user, the process writing a line, exiting or       *)
(* breaking the stream are under no obligation.                            *)
(***************************************************************************)
ThreadStep(j) ==
    \/ run_begin(j)
    \/ popen_ok(j)
    \/ popen_fail(j)
    \/ read_line(j)
    \/ read_eof(j)
    \/ read_fail(j)
    \/ wait(j)
    \/ finally_tk(j)
    \/ validate_tk(j)
    \/ finally_qt(j)

Next ==
    \/ \E u \in Urls : url_changed(u)
    \/ \E t \in { "audio", "video" } : on_type_changed(t)
    \/ start_download
    \/ \E j \in Jobs : ThreadStep(j)
    \/ \E j \in Jobs : proc_exit(j)
    \/ process_queue
    \/ deliver

Spec == Init /\ [][Next]_vars

CmdNext ==
    \/ \E u \in Urls : url_changed(u)
    \/ \E t \in { "audio", "video" } : on_type_changed(t)
    \/ \E f \in Formats : format_changed(f)
    \/ \E n \in Filenames : filename_changed(n)
    \/ \E d \in Folders : choose_folder(d)
    \/ \E d \in FolderTexts : folder_typed(d)
    \/ start_download

CmdSpec == Init /\ [][CmdNext]_vars

\* a theme radio button is chosen: the theme is applied and saved with the
\* folder the program holds (download_path / self.download_folder)
change_theme(t) ==
    /\ phase = "interactive"
    /\ t # current_theme
    /\ current_theme' = t
    /\ settings_file' = save_settings(t, download_folder)
    /\ UNCHANGED << phase, exe_found, settings, fe, fields, process_running,
                    btn_enabled, progress_on, format_shown, output_queue,
                    events, output, njobs, threads, seen, command >>

\* startup from every state of the settings store, with or without the
\* executable, followed by the handlers that touch the settings
StartNext ==
    \/ startup_load
    \/ update_probe
    \/ build_ui
    \/ \E t \in Themes : change_theme(t)
    \/ \E d \in Folders : choose_folder(d)
    \/ \E d \in FolderTexts : folder_typed(d)
    \/ \E u \in Urls : url_changed(u)
    \/ start_download

StartSpec == StartInit /\ [][StartNext]_vars

Fairness ==
    /\ \A j \in Jobs :
          /\ WF_vars(run_begin(j))
          /\ WF_vars(popen_ok(j) \/ popen_fail(j))
          /\ WF_vars(read_eof(j))
          /\ WF_vars(wait(j))
          /\ WF_vars(finally_tk(j))
          /\ WF_vars(validate_tk(j))
          /\ WF_vars(finally_qt(j))
    /\ WF_vars(process_queue)
    /\ WF_vars(deliver)

FairSpec == Spec /\ Fairness

(***************************************************************************)
(* What the claims speak of.                                               *)
(***************************************************************************)
\* the output lines of job j in the output view, in the order they appear
Delivered(j) ==
    SelectSeq(output, LAMBDA e : e.kind = "line" /\ e.job = j)

\* the first n lines thread j read from its process, in the order read
Produced(j, n) == [i \in 1..n |-> Line(j, i)]

\* job j was accepted (its thread launched) and is not yet finalized
Accepted(j) == pc[j] # "none" /\ ~seen[j]

\* thread j has set the run flag and the job is not yet finalized
HoldsFlag(j) == pc[j] \notin { "none", "begin" } /\ ~seen[j]

\* job j's process has exited, or its stream has ended or failed, and the
\* job is not yet finalized
Pending(j) ==
    /\ ~seen[j]
    /\ \/ Exited(j)
       \/ pc[j] \in { "wait", "finally", "finally_exc", "done", "raised" }

\* the start action launches thread j in this step
Starts(j) == pc[j] = "none" /\ pc'[j] = "begin"

AllWhitespace(s) == \A i \in 1..Len(s) : s[i] \in Whitespace

\* s without its leading and trailing whitespace, for s not all whitespace
Trimmed(s) ==
    LET solid == { i \in 1..Len(s) : s[i] \notin Whitespace }
        lo == CHOOSE i \in solid : \A k \in solid : i <= k
        hi == CHOOSE i \in solid : \A k \in solid : k <= i
    IN  SubSeq(s, lo, hi)

\* the output template the claims describe
ExpectedTemplate ==
    PathJoin(download_folder,
             (IF AllWhitespace(filename_var) THEN TitlePlaceholder
              ELSE Trimmed(filename_var)) \o ExtSuffix)

(***************************************************************************)
(* C1.  At most one external process spawned for a job is alive at any     *)
(* time: a start action while a job is running spawns no second process.   *)
(* Refuted: the button stays enabled after a start, and a second click     *)
(* launches a second thread that spawns a second process.                  *)
(***************************************************************************)
C1_AtMostOneProcessAlive ==
    Cardinality({ j \in Jobs : proc[j] = "alive" }) <= 1

(***************************************************************************)
(* C2.  The start action sets the run flag before the process is spawned:  *)
(* no job is accepted (thread launched, not yet finalized) while the run   *)
(* flag reads Idle.  Refuted: the flag is set by the thread's first        *)
(* statement, not by start_download.                                       *)
(***************************************************************************)
C2_AcceptedImpliesRunning ==
    \A j \in Jobs : Accepted(j) => process_running

(***************************************************************************)
(* C3.  Under fair scheduling of the threads and of the consumer, once a   *)
(* job's process has exited, or its stream has ended or failed, the job's  *)
(* completion is eventually observed and the run flag reads Idle.          *)
(***************************************************************************)
C3_EventuallyIdle ==
    \A j \in Jobs : Pending(j) ~> (seen[j] /\ ~process_running)

\* both paths have been taken: one job reaped after end-of-stream, another
\* finalized after its read failed partway, and the flag reads Idle
C3_Witness ==
    \E j, k \in Jobs :
        /\ seen[j] /\ proc[j] = "reaped"
        /\ seen[k] /\ pc[k] = "raised" /\ nread[k] >= 1 /\ proc[k] # "none"
        /\ ~process_running

(***************************************************************************)
(* C4.  The lines of a job reach the output view in the order the thread   *)
(* read them: what is delivered is always a prefix of what was read.       *)
(***************************************************************************)
C4_DeliveredIsPrefix ==
    \A j \in Jobs :
        /\ Len(Delivered(j)) <= nread[j]
        /\ Delivered(j) = Produced(j, Len(Delivered(j)))

\* two jobs have each had two lines delivered
C4_Witness ==
    \A j \in 1..2 : Len(Delivered(j)) >= 2

(***************************************************************************)
(* C5.  No output line of a job is delivered after the job's completion    *)
(* was observed (its Finished event; its return to Idle where there is no  *)
(* such event).  Refuted in the Tkinter front-end: the thread resets the   *)
(* flag while its lines still wait in output_queue.                        *)
(***************************************************************************)
C5_NoLineAfterFinished ==
    [][\A j \in Jobs : seen[j] => Delivered(j)' = Delivered(j)]_vars

(***************************************************************************)
(* C6.  Once a job's completion has been observed, the run flag never      *)
(* reads Running on that job's account: if it reads Running, another job   *)
(* that is not yet finalized has set it.                                   *)
(***************************************************************************)
C6_NoStaleRunning ==
    \A j \in Jobs :
        (seen[j] /\ process_running) =>
            \E k \in Jobs \ { j } : HoldsFlag(k)

\* a job's Finished has been handled while another job holds the flag
C6_Witness ==
    /\ fe = "qt"
    /\ \E j \in Jobs : seen[j] /\ process_running

(***************************************************************************)
(* C7.  Whenever the run flag reads Running, the Download button is        *)
(* disabled.  Refuted: nothing disables the button when a job starts.      *)
(***************************************************************************)
C7_RunningImpliesDisabled ==
    process_running => ~btn_enabled

(***************************************************************************)
(* C8.  The Download button is enabled only when the trimmed URL is not    *)
(* empty, so no command line is built with an empty URL.  Refuted in the   *)
(* Tkinter front-end at startup.                                           *)
(***************************************************************************)
C8_EnabledImpliesUrl ==
    /\ btn_enabled => ~AllWhitespace(url_var)
    /\ \A j \in Jobs :
          command[j] # NoCommand =>
              ~AllWhitespace(command[j][Len(command[j])])

(***************************************************************************)
(* C9.  A start action in Audio mode builds exactly                        *)
(* [exe, -x, --audio-format, mp3, -o, template, url], the template being   *)
(* the destination folder joined with the trimmed filename (the title      *)
(* placeholder when it is empty or all whitespace) plus ".%(ext)s",        *)
(* whatever the format field holds.                                        *)
(***************************************************************************)
C9_AudioCommand ==
    [][\A j \in Jobs :
          (Starts(j) /\ download_type = "audio") =>
              command'[j] = << yt_dlp_path, <<"-x">>, <<"--audio-format">>,
                               <<"mp3">>, <<"-o">>, ExpectedTemplate,
                               url_var >>]_vars

\* an audio job just started with a filename to trim and a format typed
C9_Witness ==
    \E j \in Jobs :
        /\ pc[j] = "begin"
        /\ download_type = "audio"
        /\ filename_var = << " ", "n", " " >>
        /\ format_var = << " ", "f" >>
        /\ command[j][6] = download_folder \o << "/", "n", ".%(ext)s" >>

(***************************************************************************)
(* C10.  A start action in Video mode with a format that is empty or all   *)
(* whitespace builds exactly [exe, -F, url], whatever the filename and the *)
(* destination folder: no -f and no -o argument.                           *)
(***************************************************************************)
C10_ProbeCommand ==
    [][\A j \in Jobs :
          (Starts(j) /\ download_type = "video"
                     /\ AllWhitespace(format_var)) =>
              command'[j] = << yt_dlp_path, <<"-F">>, url_var >>]_vars

\* a probe just started with a whitespace format and a filename typed
C10_Witness ==
    \E j \in Jobs :
        /\ pc[j] = "begin"
        /\ download_type = "video"
        /\ format_var = << " " >>
        /\ filename_var = << "n" >>
        /\ command[j] = << yt_dlp_path, <<"-F">>, << "u" >> >>

(***************************************************************************)
(* C11.  A start action in Video mode with a format that is not empty or   *)
(* all whitespace builds exactly                                           *)
(* [exe, -f, format, --merge-output-format, mp4, -o, template, url], the   *)
(* format being the text of the field as typed and the template the one of *)
(* the audio branch.                                                       *)
(***************************************************************************)
C11_VideoCommand ==
    [][\A j \in Jobs :
          (Starts(j) /\ download_type = "video"
                     /\ ~AllWhitespace(format_var)) =>
              command'[j] = << yt_dlp_path, <<"-f">>, format_var,
                               <<"--merge-output-format">>, <<"mp4">>,
                               <<"-o">>, ExpectedTemplate, url_var >>]_vars

\* a video download just started with a padded format and a filename to trim
C11_Witness ==
    \E j \in Jobs :
        /\ pc[j] = "begin"
        /\ download_type = "video"
        /\ format_var = << " ", "f" >>
        /\ filename_var = << " ", "n", " " >>
        /\ command[j][3] = << " ", "f" >>
        /\ command[j][7] = download_folder \o << "/", "n", ".%(ext)s" >>

(***************************************************************************)
(* C12.  On every path, normal or failing, the process of a job is waited  *)
(* on (reaped) before the job is finalized.  Refuted: when reading the     *)
(* stream raises, control leaves the try block before process.wait() and   *)
(* the finally block finalizes a job whose process was never waited on.    *)
(***************************************************************************)
C12_WaitedBeforeFinalized ==
    \A j \in Jobs : (seen[j] /\ proc[j] # "none") => proc[j] = "reaped"

(***************************************************************************)
(* C13.  No failure of the process lifecycle ends the background thread    *)
(* with an unhandled error.  Refuted: run_process has try/finally and no   *)
(* except clause, so a failed spawn or a failed read leaves the thread as  *)
(* an exception once the finally block has run.                            *)
(***************************************************************************)
C13_NoUnhandledError ==
    \A j \in Jobs : pc[j] # "raised"

(***************************************************************************)
(* C14.  When the downloader executable is absent, the program never       *)
(* builds or shows its window: it stays before the probe or has exited,    *)
(* the button is never enabled and no job is ever launched.                *)
(***************************************************************************)
C14_AbsentExeNeverInteractive ==
    ~exe_found =>
        /\ phase \in { "load", "probe", "exited" }
        /\ ~btn_enabled
        /\ njobs = 0
        /\ \A j \in Jobs : pc[j] = "none"

\* the probe found no executable and the program has exited
C14_Witness ==
    ~exe_found /\ phase = "exited"

\* settings.json gives no usable settings: it is absent, it does not parse,
\* or it parses to an object without both keys
Unusable(file) ==
    file.kind \in { "absent", "garbled" } \/ ~(SettingsKeys \subseteq file.keys)

(***************************************************************************)
(* C15.  Whenever the settings data is absent or corrupt, the settings     *)
(* loaded at startup contain both theme and download_folder and startup    *)
(* does not fail.  Refuted: a file that parses but lacks a key is returned *)
(* as it is, and reading the missing key raises KeyError while the window  *)
(* is built.                                                               *)
(***************************************************************************)
C15_SilentFallback ==
    (phase # "load" /\ Unusable(settings_file)) =>
        /\ SettingsKeys \subseteq settings.keys
        /\ phase # "crashed"

\* the lines of job j that wait in the relay: in output_queue (tk) or among
\* the queued signals (qt)
InFlight(j) ==
    SelectSeq(output_queue \o events,
              LAMBDA e : e.kind = "line" /\ e.job = j)

(***************************************************************************)
(* C16.  The relay neither drops nor duplicates: at every moment the lines *)
(* of a job already appended to the output view, followed by those still   *)
(* waiting in the relay, are exactly the lines its thread has read, in     *)
(* order; and again and again the relay holds no line of the job, so that  *)
(* every line read has by then been appended, whatever the job's state     *)
(* when the consumer gets to it.                                           *)
(***************************************************************************)
C16_ExactlyOnce ==
    /\ [](\A j \in Jobs :
             Delivered(j) \o InFlight(j) = Produced(j, nread[j]))
    /\ \A j \in Jobs : []<>(InFlight(j) = <<>>)

\* a job is back to Idle with one line appended and another still buffered
C16_Witness ==
    \E j \in Jobs :
        /\ seen[j]
        /\ ~process_running
        /\ Len(Delivered(j)) >= 1
        /\ InFlight(j) # <<>>

(***************************************************************************)
(* C17.  A step of the background thread leaves the button's enabled       *)
(* state, the busy indicator, the format field's visibility and the        *)
(* settings unchanged.  Refuted in the Tkinter front-end: run_process      *)
(* calls progress.start(), progress.stop() and validate() itself.          *)
(***************************************************************************)
C17_ThreadFrame ==
    [][(\E j \in Jobs : ThreadStep(j)) =>
          UNCHANGED << btn_enabled, progress_on, format_shown,
                       settings, settings_file, current_theme >>]_vars

StartStep == njobs' # njobs

(***************************************************************************)
(* C19.  Each start action launches exactly one thread with exactly one    *)
(* command line, the one of the audio, the listing or the video branch.    *)
(***************************************************************************)
C19_ExactlyOneLaunch ==
    [][StartStep =>
          /\ njobs' = njobs + 1
          /\ Cardinality({ j \in Jobs : Starts(j) }) = 1
          /\ \A j \in Jobs :
                Starts(j) =>
                    command'[j] \in
                        { AudioCommand(download_folder, filename_var, url_var),
                          ProbeCommand(download_folder, filename_var, url_var),
                          VideoCommand(download_folder, filename_var,
                                       format_var, url_var) }]_vars

\* two starts, one in audio mode with an empty format field and one listing
C19_Witness ==
    /\ njobs = 2
    /\ command[1][2] = <<"-x">>
    /\ command[2][2] = <<"-F">>
    /\ pc[1] = "begin"
    /\ pc[2] = "begin"

\* the template of a command line that has one (the argument before the URL)
TemplateOf(cmd) == cmd[Len(cmd) - 1]

(***************************************************************************)
(* C20.  At every start that passes -o, the template is the file name part *)
(* joined to the folder shown in the download-folder field.  Refuted in    *)
(* the Qt front-end: text typed into the field changes only the widget,    *)
(* and the template is built from self.download_folder.                    *)
(***************************************************************************)
C20_TemplateFollowsField ==
    [][\A j \in Jobs :
          (Starts(j) /\ Len(command'[j]) > 3) =>
              TemplateOf(command'[j]) =
                  PathJoin(folder_entry,
                           (IF AllWhitespace(filename_var)
                              THEN TitlePlaceholder
                              ELSE Trimmed(filename_var)) \o ExtSuffix)]_vars

(***************************************************************************)
(* C21.  The two front-ends select commands identically: at every start    *)
(* action, the Tkinter start_download and the Qt start_download, given the *)
(* mode, URL, format, filename and folder of that moment, build the same   *)
(* argument vector, and it is the one the job is launched with.            *)
(***************************************************************************)
C21_SameArgv ==
    [][StartStep =>
          /\ Launches = QtLaunches(download_type = "audio", url_var,
                                   format_var, filename_var, download_folder)
          /\ \A j \in Jobs : Starts(j) => command'[j] = Launches[1]]_vars

\* the Qt window has launched a video download with a padded format and a
\* filename to trim, with the command the Tkinter function builds
C21_Witness ==
    \E j \in Jobs :
        /\ fe = "qt"
        /\ pc[j] = "begin"
        /\ download_type = "video"
        /\ format_var = << " ", "f" >>
        /\ filename_var = << " ", "n", " " >>
        /\ command[j] = VideoCommand(download_folder, filename_var,
                                     format_var, url_var)

=============================================================================
